---- MODULE Spec2Model ----
(***************************************************************************)
(* KPI change analyzer: the /analyze pipeline of analysis_o/main.py        *)
(*   detect_change_context -> calculate_drivers_effects ->                 *)
(*   assess_data_quality -> build_output_json                              *)
(* over in-memory tables (pandas DataFrames).                              *)
(*                                                                         *)
(* Numbers.  Metric values are integers; every float the code derives from *)
(* them is a rational, held exactly as [n |-> numerator, d |-> denominator]*)
(* in lowest terms with d > 0.  The code's eps (1e-8) is held symbolically:*)
(* a value n + e*eps is the pair [n, e], ordered lexicographically, which  *)
(* is the order of the floats as long as every rational involved has a     *)
(* denominator far below 1/eps (here below 10^4).                          *)
(***************************************************************************)
EXTENDS Integers, Sequences, FiniteSets, TLC

VARIABLES
    full_df,          \* the full table handed to the pipeline
    current,          \* the current-period table
    previous,         \* the previous-period table
    dimensions_arg,   \* the `dimensions` argument of calculate_drivers_effects
    pc,               \* position of the request in analyze()
    change_context,   \* result of detect_change_context
    dimensions,       \* the resolved dimension list being iterated
    dim_i,            \* index of the next dimension of the loop
    totals,           \* the totals computed before the loop
    frame,            \* locals of the last loop iteration (the merged frame at each step)
    results,          \* the DriverResult list built so far
    data_quality,     \* result of assess_data_quality
    output_json,      \* result of build_output_json
    error,            \* the exception that ended the request, if any
    calls             \* the calls a caller outside analyze() has completed

vars == <<full_df, current, previous, dimensions_arg, pc, change_context,
          dimensions, dim_i, totals, frame, results, data_quality,
          output_json, error, calls>>

\* Python's None, where a record (a dictionary, a float) is expected
None == [none |-> TRUE]

\* no exception raised
NoRaise == "no exception"

-----------------------------------------------------------------------------
(* Bounds of the model *)

\* segments (distinct dimension_1 categories) a table can hold
NumSeg == 4
\* rows per period in the free small tables
MaxRows == 2
\* the wide tables hold MaxCategories .. MaxCategories + WideExtra rows
WideExtra == 2

(* Program constants *)

\* is_continuous_series(max_categories=20)
MaxCategories == 20
\* bin_continuous_dimension(n_bins=10)
NBins == 10
\* bin_continuous_dimension(min_unique=10)
MinUnique == 10
\* top_positive / top_negative keep [:3]
TopPerDimension == 3
\* top_*_overall keep [:5]
TopOverall == 5
\* min_volume_share = 0.01 and min_abs_contrib_share = 0.01, as 1/100
MinVolumeShareNum == 1
MinAbsContribShareNum == 1
ShareDen == 100

-----------------------------------------------------------------------------
(* Exact arithmetic standing for the code's floats *)

Abs(x) == IF x < 0 THEN -x ELSE x

Sign(x) == IF x > 0 THEN 1 ELSE IF x < 0 THEN -1 ELSE 0

RECURSIVE GCD(_, _)
GCD(a, b) == IF b = 0 THEN a ELSE GCD(b, a % b)

\* float NaN: the rational with denominator 0; every sum, difference and
\* product with it is NaN and every comparison with it is false
NaN == [n |-> 0, d |-> 0]

IsNaN(x) == x.d = 0

\* the rational n/d in lowest terms, d > 0 (0/0, the mean of nothing, is NaN)
Rat(n, d) ==
    IF d = 0 THEN NaN
    ELSE LET g == GCD(Abs(n), Abs(d))
             s == IF d < 0 THEN -1 ELSE 1
         IN [n |-> s * (n \div g), d |-> s * (d \div g)]

RatInt(i) == [n |-> i, d |-> 1]

RatAdd(x, y) == Rat(x.n * y.d + y.n * x.d, x.d * y.d)

RatSub(x, y) == Rat(x.n * y.d - y.n * x.d, x.d * y.d)

RatMul(x, y) == Rat(x.n * y.n, x.d * y.d)

RatAbs(x) == [n |-> Abs(x.n), d |-> x.d]

RatLess(x, y) == x.n * y.d < y.n * x.d

RatSign(x) == Sign(x.n)

RECURSIVE SumSeq(_)
SumSeq(s) == IF s = <<>> THEN 0 ELSE Head(s) + SumSeq(Tail(s))

RECURSIVE RatSumSeq(_)
RatSumSeq(s) == IF s = <<>> THEN RatInt(0) ELSE RatAdd(Head(s), RatSumSeq(Tail(s)))

\* n + e*eps, eps the code's 1e-8
Eps(n, e) == [n |-> n, e |-> e]

\* x < y for two values n + e*eps
EpsLess(x, y) == x.n < y.n \/ (x.n = y.n /\ x.e < y.e)

EpsSign(v) == IF v.n # 0 THEN Sign(v.n) ELSE Sign(v.e)

EpsAbs(v) == IF EpsSign(v) < 0 THEN Eps(-v.n, -v.e) ELSE v

\* the float num / den, num a rational and den a value n + e*eps
Quot(num, den) == [num |-> num, den |-> den]

\* |q|
QuotAbs(q) == Quot(RatAbs(q.num), EpsAbs(q.den))

\* q >= p / ShareDen, for q with a positive denominator:
\* num.n/(num.d * (n + e*eps)) >= p/ShareDen  <=>
\* ShareDen * num.n >= p * num.d * n + p * num.d * e * eps
QuotGeqFrac(q, p) ==
    LET lhs == ShareDen * q.num.n
        rhs == p * q.num.d * q.den.n
    IN lhs > rhs \/ (lhs = rhs /\ p * q.num.d * q.den.e <= 0)

\* a < b for two floats num/den with positive denominators
QuotLess(a, b) ==
    IF a.den = b.den
    THEN RatLess(a.num, b.num)
    ELSE LET l == Eps(a.num.n * b.num.d * b.den.n, a.num.n * b.num.d * b.den.e)
             r == Eps(b.num.n * a.num.d * a.den.n, b.num.n * a.num.d * a.den.e)
         IN l.n < r.n \/ (l.n = r.n /\ l.e < r.e)

-----------------------------------------------------------------------------
(* Sequences *)

SeqToSet(s) == {s[i] : i \in DOMAIN s}

SelectIdx(s, Test(_)) ==
    LET RECURSIVE Go(_)
        Go(i) == IF i > Len(s) THEN <<>>
                 ELSE IF Test(s[i]) THEN <<s[i]>> \o Go(i + 1) ELSE Go(i + 1)
    IN Go(1)

Take(s, k) == IF Len(s) <= k THEN s ELSE SubSeq(s, 1, k)

\* stable sort (insertion sort): an element goes after every element that is
\* not strictly after it, so equal elements keep their input order
SortStable(s, Before(_, _)) ==
    LET RECURSIVE Insert(_, _)
        Insert(x, t) ==
            IF t = <<>> THEN <<x>>
            ELSE IF Before(x, Head(t)) THEN <<x>> \o t
                 ELSE <<Head(t)>> \o Insert(x, Tail(t))
        RECURSIVE Sort(_)
        Sort(k) == IF k = 0 THEN <<>> ELSE Insert(s[k], Sort(k - 1))
    IN Sort(Len(s))

-----------------------------------------------------------------------------
(* Tables (pandas DataFrames) and the pandas operations the code uses *)

Columns == <<"date", "metric_value", "dimension_1", "dimension_2">>

Dtypes == [date |-> "datetime64", metric_value |-> "int64",
           dimension_1 |-> "object", dimension_2 |-> "int64"]

Table(rows) == [columns |-> Columns, dtypes |-> Dtypes, rows |-> rows]

\* the values of the object-typed dimension, in lexicographic order
CatNames == <<"a", "b", "c", "d", "e", "f">>

CatIndex(v) == CHOOSE i \in DOMAIN CatNames : CatNames[i] = v

\* "<dim>_bin_<i>"
BinLabel(dim, i) == dim \o "_bin_" \o ToString(i)

BinIndex(v) == CHOOSE i \in 0 .. NBins : \E c \in SeqToSet(Columns) : BinLabel(c, i) = v

\* position of a value in the sort order of its column
KeyOrd(dtype, v) ==
    IF dtype = "object" THEN CatIndex(v)
    ELSE IF dtype = "category" THEN BinIndex(v)
    ELSE v

HasColumn(t, c) == c \in SeqToSet(t.columns)

\* DataFrame.empty
IsEmpty(t) == Len(t.rows) = 0 \/ Len(t.columns) = 0

\* t[c]
Column(t, c) == [i \in 1 .. Len(t.rows) |-> t.rows[i][c]]

\* Series.nunique(dropna=True)
NUnique(series) == Cardinality(SeqToSet(series))

\* pd.api.types.is_numeric_dtype
IsNumericDtype(dtype) == dtype \in {"int64", "float64"}

\* t[name] = values: a new column, or the column replaced
SetColumn(t, name, dtype, values) ==
    [columns |-> IF HasColumn(t, name) THEN t.columns ELSE Append(t.columns, name),
     dtypes  |-> [c \in DOMAIN t.dtypes \cup {name} |->
                    IF c = name THEN dtype ELSE t.dtypes[c]],
     rows    |-> [i \in 1 .. Len(t.rows) |->
                    [c \in DOMAIN t.rows[i] \cup {name} |->
                        IF c = name THEN values[i] ELSE t.rows[i][c]]]]

\* the distinct values of a set of keys, in ascending order
SortedKeys(keys, dtype) ==
    LET RECURSIVE Go(_)
        Go(S) == IF S = {} THEN <<>>
                 ELSE LET m == CHOOSE x \in S :
                                 \A y \in S : KeyOrd(dtype, x) <= KeyOrd(dtype, y)
                      IN <<m>> \o Go(S \ {m})
    IN Go(keys)

\* float(t[metric_col].sum())
MetricSum(t, metric_col) == SumSeq(Column(t, metric_col))

-----------------------------------------------------------------------------
(* drivers.py: is_continuous_series and bin_continuous_dimension *)

\* is_continuous_series(s, max_categories=20)
IsContinuousSeries(dtype, series) ==
    IF ~IsNumericDtype(dtype) THEN FALSE
    ELSE NUnique(series) > MaxCategories

\* combined[dim].quantile(i / n_bins), linear interpolation between the two
\* order statistics around position (i / n_bins) * (n - 1); xs is sorted
Quantile(xs, i) ==
    LET pos == i * (Len(xs) - 1)
        lo  == pos \div NBins
        rem == pos % NBins
    IN IF rem = 0 THEN RatInt(xs[lo + 1])
       ELSE RatAdd(RatInt(xs[lo + 1]), Rat(rem * (xs[lo + 2] - xs[lo + 1]), NBins))

\* np.unique of a non-decreasing sequence of edges
UniqueEdges(es) ==
    SelectIdx([i \in 1 .. Len(es) |-> [at |-> i, v |-> es[i]]],
              LAMBDA p : p.at = 1 \/ es[p.at - 1] # p.v)

\* the quantile edges of the combined values, deduplicated
BinEdges(combined) ==
    LET xs == SortStable(combined, LAMBDA a, b : a < b)
        es == [i \in 1 .. NBins + 1 |-> Quantile(xs, i - 1)]
        us == UniqueEdges(es)
    IN [i \in 1 .. Len(us) |-> us[i].v]

\* pd.cut(values, bins=edges, labels=labels, include_lowest=True): the label of
\* the first interval (edges[i], edges[i+1]] holding v, the lowest edge included
Cut(v, edges, dim) ==
    LET x == RatInt(v)
        inside == {i \in 1 .. Len(edges) - 1 :
                      /\ (RatLess(edges[i], x) \/ (i = 1 /\ edges[i] = x))
                      /\ ~RatLess(edges[i + 1], x)}
    IN IF inside = {} THEN "NaN"
       ELSE BinLabel(dim, (CHOOSE i \in inside : TRUE) - 1)

BinnedName(dim) == dim \o "_binned"

\* the fallback of lines 28-30, 39-41 and 56-58: <dim>_binned is the raw column
RawAsBinned(t, dim) == SetColumn(t, BinnedName(dim), t.dtypes[dim], Column(t, dim))

\* a variant of BinContinuousDimension that takes the quantile edges of each
\* period from that period's own values
BinContinuousDimension_OwnEdges(cur, prev, dim) ==
    LET combined == Column(cur, dim) \o Column(prev, dim)
        raw == [current |-> RawAsBinned(cur, dim), previous |-> RawAsBinned(prev, dim)]
    IN IF NUnique(combined) < MinUnique THEN raw
       ELSE IF ~IsNumericDtype(cur.dtypes[dim]) THEN raw
       ELSE IF Len(BinEdges(combined)) <= 1 THEN raw
       ELSE [current  |-> SetColumn(cur, BinnedName(dim), "category",
                              [i \in 1 .. Len(cur.rows) |->
                                  Cut(cur.rows[i][dim], BinEdges(Column(cur, dim)), dim)]),
             previous |-> SetColumn(prev, BinnedName(dim), "category",
                              [i \in 1 .. Len(prev.rows) |->
                                  Cut(prev.rows[i][dim], BinEdges(Column(prev, dim)), dim)])]

\* bin_continuous_dimension(current, previous, dim): both tables are assigned
\* the column <dim>_binned in place and returned.  The quantiles of a column
\* that is not numeric raise inside the try block, and the except clause of
\* lines 54-58 assigns the raw values
BinContinuousDimension(cur, prev, dim) ==
    LET combined == Column(cur, dim) \o Column(prev, dim)
        unique_vals == NUnique(combined)
        bin_edges == BinEdges(combined)
        raw == [current |-> RawAsBinned(cur, dim), previous |-> RawAsBinned(prev, dim)]
    IN IF unique_vals < MinUnique THEN raw
       ELSE IF ~IsNumericDtype(cur.dtypes[dim]) THEN raw
       ELSE IF Len(bin_edges) <= 1 THEN raw
       ELSE [current  |-> SetColumn(cur, BinnedName(dim), "category",
                              [i \in 1 .. Len(cur.rows) |->
                                  Cut(cur.rows[i][dim], bin_edges, dim)]),
             previous |-> SetColumn(prev, BinnedName(dim), "category",
                              [i \in 1 .. Len(prev.rows) |->
                                  Cut(prev.rows[i][dim], bin_edges, dim)])]

-----------------------------------------------------------------------------
(* drivers.py: calculate_drivers_effects *)

MetricCol == "metric_value"

\* a record with one more (or one replaced) field
With(r, name, value) ==
    [c \in DOMAIN r \cup {name} |-> IF c = name THEN value ELSE r[c]]

\* dimensions = [col for col in common_cols if col not in non_dim_cols]:
\* the candidate columns, as a set (the code iterates a Python set)
InferredDimensions(cur, prev) ==
    (SeqToSet(cur.columns) \cap SeqToSet(prev.columns))
        \ {"date", MetricCol, "metric_name"}

\* every order in which a set can be iterated
Orderings(S) ==
    {q \in [1 .. Cardinality(S) -> S] : \A i, j \in DOMAIN q : i # j => q[i] # q[j]}

\* a variant of IterationOrders in which the order changes from call to call
IterationOrders_Unstable(S, before) == Orderings(S)

\* the orders in which the set of line 108 can be iterated by a process that
\* iterated `before` in an earlier call: the hashes of the column names are
\* fixed for the life of the process, so the same set built the same way is
\* iterated in the same order again; any order for a set not seen before
IterationOrders(S, before) ==
    IF before # <<>> /\ SeqToSet(before) = S THEN {before} ELSE Orderings(S)

\* the totals of lines 117-122
Totals(cur, prev) ==
    LET tc == IF HasColumn(cur, MetricCol) THEN MetricSum(cur, MetricCol) ELSE 0
        tp == IF HasColumn(prev, MetricCol) THEN MetricSum(prev, MetricCol) ELSE 0
    IN [total_curr_volume   |-> Len(cur.rows),
        total_prev_volume   |-> Len(prev.rows),
        total_curr_contrib  |-> tc,
        total_prev_contrib  |-> tp,
        total_contrib_delta |-> tc - tp]

\* t.groupby(by)[metric_col].agg(<vol>="sum", <mean>="mean").reset_index():
\* one row per distinct key, keys ascending
GroupAgg(t, by, vol, mean) ==
    LET keys == SortedKeys(SeqToSet(Column(t, by)), t.dtypes[by])
        Agg(k) ==
            LET ms == SelectIdx(t.rows, LAMBDA r : r[by] = k)
                sum == SumSeq([i \in 1 .. Len(ms) |-> ms[i][MetricCol]])
            IN [c \in {by, vol, mean} |->
                   IF c = by THEN k
                   ELSE IF c = vol THEN sum
                   ELSE Rat(sum, Len(ms))]
    IN [columns |-> <<by, vol, mean>>,
        dtype   |-> t.dtypes[by],
        rows    |-> [i \in 1 .. Len(keys) |-> Agg(keys[i])]]

\* pd.merge(curr_agg, prev_agg, on=on, how="outer") followed by the two
\* fillna(0) of lines 165-166; KeyError when `on` is no column of a frame
MergeOuter(curr_agg, prev_agg, on) ==
    IF ~HasColumn(curr_agg, on) \/ ~HasColumn(prev_agg, on)
    THEN [raised |-> "KeyError", rows |-> <<>>]
    ELSE LET ck == {curr_agg.rows[i][on] : i \in DOMAIN curr_agg.rows}
             pk == {prev_agg.rows[i][on] : i \in DOMAIN prev_agg.rows}
             keys == SortedKeys(ck \cup pk, curr_agg.dtype)
             CRow(k) == CHOOSE r \in SeqToSet(curr_agg.rows) : r[on] = k
             PRow(k) == CHOOSE r \in SeqToSet(prev_agg.rows) : r[on] = k
             Row(k) ==
                 [c \in {on, "volume_curr", "mean_curr", "volume_prev", "mean_prev"} |->
                    IF c = on THEN k
                    ELSE IF c = "volume_curr"
                         THEN (IF k \in ck THEN CRow(k).volume_curr ELSE 0)
                    ELSE IF c = "mean_curr"
                         THEN (IF k \in ck THEN CRow(k).mean_curr ELSE RatInt(0))
                    ELSE IF c = "volume_prev"
                         THEN (IF k \in pk THEN PRow(k).volume_prev ELSE 0)
                    ELSE (IF k \in pk THEN PRow(k).mean_prev ELSE RatInt(0))]
         IN [raised |-> NoRaise, rows |-> [i \in 1 .. Len(keys) |-> Row(keys[i])]]

\* lines 169-171
WithContributions(r) ==
    LET cc == RatMul(RatInt(r.volume_curr), r.mean_curr)
        cp == RatMul(RatInt(r.volume_prev), r.mean_prev)
    IN With(With(With(r, "contrib_curr", cc), "contrib_prev", cp),
            "contrib_delta", RatSub(cc, cp))

\* lines 175-176
WithVolumeShares(r, tot) ==
    With(With(r, "volume_share_curr",
                 Quot(RatInt(r.volume_curr), Eps(tot.total_curr_volume, 1))),
         "volume_share_prev",
         Quot(RatInt(r.volume_prev), Eps(tot.total_prev_volume, 1)))

\* the mask of lines 178-181
PassesVolumeFilter(r) ==
    \/ QuotGeqFrac(r.volume_share_curr, MinVolumeShareNum)
    \/ QuotGeqFrac(r.volume_share_prev, MinVolumeShareNum)

\* a variant of Denom without the fallback branch: always total_contrib_delta
Denom_NoFallback(tot) == Eps(tot.total_contrib_delta, 0)

\* denom of lines 194-196; abs(total_contrib_delta) > eps
Denom(tot) ==
    IF EpsLess(Eps(0, 1), Eps(Abs(tot.total_contrib_delta), 0))
    THEN Eps(tot.total_contrib_delta, 0)
    ELSE Eps(Abs(tot.total_curr_contrib) + Abs(tot.total_prev_contrib), 1)

\* line 198
WithShare(r, denom) == With(r, "contrib_share_of_change", Quot(r.contrib_delta, denom))

\* the mask of lines 201-203
PassesContribFilter(r) ==
    QuotGeqFrac(QuotAbs(r.contrib_share_of_change), MinAbsContribShareNum)

\* a variant of DriverScoreToLabel with the two lower labels exchanged
DriverScoreToLabel_Exchanged(score) ==
    IF ~QuotGeqFrac(score, 2) THEN "moderate"
    ELSE IF ~QuotGeqFrac(score, 10) THEN "minor"
    ELSE "strong"

\* score_to_label of lines 220-230: < 0.02 minor, < 0.1 moderate, else strong
DriverScoreToLabel(score) ==
    IF ~QuotGeqFrac(score, 2) THEN "minor"
    ELSE IF ~QuotGeqFrac(score, 10) THEN "moderate"
    ELSE "strong"

\* lines 217, 232 and 235-237
WithScore(r) ==
    LET score == QuotAbs(r.contrib_share_of_change)
    IN With(With(With(r, "effect_score", score),
                 "change_label", DriverScoreToLabel(score)),
            "direction", IF RatSign(r.contrib_delta) >= 0 THEN "positive" ELSE "negative")

\* a variant of SortByEffectScore that leaves out ascending=False
SortByEffectScore_Ascending(rows) ==
    SortStable(rows, LAMBDA a, b : QuotLess(a.effect_score, b.effect_score))

\* merged.sort_values("effect_score", ascending=False): for frames this small
\* NumPy's quicksort is an insertion sort, so ties keep the merge order
SortByEffectScore(rows) ==
    SortStable(rows, LAMBDA a, b : QuotLess(b.effect_score, a.effect_score))

\* lines 245-247
TopPositive(records) ==
    Take(SelectIdx(records, LAMBDA r : RatSign(r.contrib_delta) > 0), TopPerDimension)

\* lines 248-250
TopNegative(records) ==
    Take(SelectIdx(records, LAMBDA r : RatSign(r.contrib_delta) < 0), TopPerDimension)

\* the record appended at lines 184-189 and 206-211
EmptyDriverResult(dim) ==
    [dimension |-> dim, drivers |-> <<>>, top_positive |-> <<>>, top_negative |-> <<>>]

\* the record appended at lines 254-261
DriverResult(dim, records) ==
    [dimension    |-> dim,
     drivers      |-> records,
     top_positive |-> TopPositive(records),
     top_negative |-> TopNegative(records),
     num_drivers  |-> Len(records)]

\* the outcome of one iteration of the loop of lines 124-261.  kind is
\* "skip" (a continue before any work), "raise" (an exception leaves the
\* function), "empty" (an empty record is appended) or "full"; frame holds
\* the merged frame of the iteration at each step.  The tables are part of
\* the outcome because bin_continuous_dimension assigns into them.
StepOutcome(kind, tables, dim, merged, after_volume, denom, after_contrib, result, raised) ==
    [kind     |-> kind,
     current  |-> tables.current,
     previous |-> tables.previous,
     frame    |-> [dimension |-> dim, kind |-> kind, merged |-> merged,
                   after_volume |-> after_volume, denom |-> denom,
                   after_contrib |-> after_contrib],
     result   |-> result,
     raised   |-> raised]

MapSeq(s, F(_)) == [i \in 1 .. Len(s) |-> F(s[i])]

\* lines 214-261: score, label, sort and append the record
ScoreStage(tables, dim, merged, shared, denom, after_contrib) ==
    IF after_contrib = <<>>
    THEN StepOutcome("empty", tables, dim, merged, shared, denom, <<>>,
                     EmptyDriverResult(dim), NoRaise)
    ELSE StepOutcome("full", tables, dim, merged, shared, denom, after_contrib,
                     DriverResult(dim, SortByEffectScore(MapSeq(after_contrib, WithScore))),
                     NoRaise)

\* lines 192-212: normalise and apply the contribution filter
ContribStage(tables, dim, merged, after_volume, denom) ==
    IF after_volume = <<>>
    THEN StepOutcome("empty", tables, dim, merged, <<>>, None, <<>>,
                     EmptyDriverResult(dim), NoRaise)
    ELSE ScoreStage(tables, dim, merged, after_volume, denom,
                    SelectIdx(after_volume, PassesContribFilter))

\* lines 168-190: contributions, volume shares and the volume filter
VolumeStage(tables, dim, m, tot) ==
    IF m.raised # NoRaise
    THEN StepOutcome("raise", tables, dim, <<>>, <<>>, None, <<>>, None, m.raised)
    ELSE ContribStage(tables, dim,
             MapSeq(m.rows, LAMBDA r : WithVolumeShares(WithContributions(r), tot)),
             MapSeq(SelectIdx(MapSeq(m.rows, LAMBDA r :
                                 WithVolumeShares(WithContributions(r), tot)),
                              PassesVolumeFilter),
                    LAMBDA r : WithShare(r, Denom(tot))),
             Denom(tot))

\* lines 150-166: aggregate both periods on dim_for_groupby, merge on dim
MergeStage(tables, dim, dim_for_groupby, tot) ==
    VolumeStage(tables, dim,
        MergeOuter(GroupAgg(tables.current, dim_for_groupby, "volume_curr", "mean_curr"),
                   GroupAgg(tables.previous, dim_for_groupby, "volume_prev", "mean_prev"),
                   dim),
        tot)

\* the two tests of lines 129-137 that skip a dimension
SkipsDimension(cur, prev, dim) ==
    \/ NUnique(Column(cur, dim)) <= 1 /\ NUnique(Column(prev, dim)) <= 1
    \/ NUnique(Column(cur, dim) \o Column(prev, dim)) <= 1

\* one iteration of the loop of lines 124-261 for dimension dim
DimensionStep(cur, prev, dim, tot) ==
    IF ~HasColumn(cur, dim) \/ ~HasColumn(prev, dim)
    THEN StepOutcome("skip", [current |-> cur, previous |-> prev], dim,
                     <<>>, <<>>, None, <<>>, None, NoRaise)
    ELSE IF SkipsDimension(cur, prev, dim)
    THEN StepOutcome("skip", [current |-> cur, previous |-> prev], dim,
                     <<>>, <<>>, None, <<>>, None, NoRaise)
    ELSE IF IsContinuousSeries(cur.dtypes[dim], Column(cur, dim) \o Column(prev, dim))
    THEN MergeStage(BinContinuousDimension(cur, prev, dim), dim, BinnedName(dim), tot)
    ELSE MergeStage([current |-> cur, previous |-> prev], dim, dim, tot)

-----------------------------------------------------------------------------
(* trend.py: detect_change_context *)

RECURSIVE Pow10(_)
Pow10(k) == IF k = 0 THEN 1 ELSE 10 * Pow10(k - 1)

\* round(x, k): the nearest multiple of 10^-k, ties to the even one
RoundRat(x, k) ==
    IF IsNaN(x) THEN NaN ELSE
    LET q    == x.n \div x.d
        a    == (x.n % x.d) * Pow10(k)
        f    == q * Pow10(k) + (a \div x.d)
        rem  == a % x.d
        up   == 2 * rem > x.d \/ (2 * rem = x.d /\ f % 2 = 1)
    IN Rat(IF up THEN f + 1 ELSE f, Pow10(k))

\* df.sort_values(by=col): rows by ascending col
SortValues(t, col) ==
    [t EXCEPT !.rows = SortStable(t.rows, LAMBDA a, b : a[col] < b[col])]

\* float(series.mean())
Mean(series) == Rat(SumSeq(series), Len(series))

\* fit_slope of lines 40-47: the least-squares slope against 0 .. n-1
FitSlope(series) ==
    IF Len(series) < 2 THEN RatInt(0)
    ELSE LET n   == Len(series)
             sx  == SumSeq([i \in 1 .. n |-> i - 1])
             sxx == SumSeq([i \in 1 .. n |-> (i - 1) * (i - 1)])
             sy  == SumSeq(series)
             sxy == SumSeq([i \in 1 .. n |-> (i - 1) * series[i]])
         IN Rat(n * sxy - sx * sy, n * sxx - sx * sx)

\* series.diff().dropna()
Diffs(series) == [i \in 1 .. Len(series) - 1 |-> series[i + 1] - series[i]]

\* a variant of TrendAlignment in which a difference of zero counts as a
\* difference in the direction of the level delta
TrendAlignment_ZeroCounts(full_series, level_delta) ==
    LET diffs == Diffs(full_series)
        overall_delta_sign == IF level_delta.n # 0 THEN RatSign(level_delta) ELSE 0
    IN IF Len(diffs) = 0 /\ (IsNaN(level_delta) \/ overall_delta_sign # 0) THEN NaN
       ELSE IF IsNaN(level_delta) THEN RatInt(0)
       ELSE IF overall_delta_sign = 0 THEN Rat(1, 2)
       ELSE Rat(Len(SelectIdx(diffs, LAMBDA d : Sign(d) \in {0, overall_delta_sign})),
                Len(diffs))

\* lines 54-59; the mean of an empty comparison is NaN
TrendAlignment(full_series, level_delta) ==
    LET diffs == Diffs(full_series)
        overall_delta_sign == IF level_delta.n # 0 THEN RatSign(level_delta) ELSE 0
    IN IF Len(diffs) = 0 /\ (IsNaN(level_delta) \/ overall_delta_sign # 0) THEN NaN
       ELSE IF IsNaN(level_delta) THEN RatInt(0)
       ELSE IF overall_delta_sign = 0 THEN Rat(1, 2)
       ELSE Rat(Len(SelectIdx(diffs, LAMBDA d : Sign(d) = overall_delta_sign)),
                Len(diffs))

\* the square of series.std() (ddof = 1)
Variance(series) ==
    LET n == Len(series)
        sy == SumSeq(series)
        syy == SumSeq([i \in 1 .. n |-> series[i] * series[i]])
    IN Rat(n * syy - sy * sy, n * (n - 1))

\* min(max(8, len(full_series) // 10), 20)
WindowSize(n) ==
    LET a == IF n \div 10 > 8 THEN n \div 10 ELSE 8
    IN IF a < 20 THEN a ELSE 20

\* avg_volatility of lines 63-68, held as the variances whose square roots
\* it averages: avg_volatility = (sum of sqrt(roots[i])) / Len(roots), and 0
\* for no roots
Volatility(full_series) ==
    LET n == Len(full_series)
        w == WindowSize(n)
    IN IF n >= w
       THEN [roots |-> [i \in 1 .. n - w + 1 |->
                           Variance(SubSeq(full_series, i, i + w - 1))]]
       ELSE IF n > 1 THEN [roots |-> <<Variance(full_series)>>]
       ELSE [roots |-> <<>>]

\* avg_volatility squared.  The mean of square roots is the square root of
\* the common value when the windows agree, which they do in every table
\* of this model (the rolling branch is reached with a constant metric)
VolatilitySq(vol) ==
    IF vol.roots = <<>> THEN RatInt(0)
    ELSE CHOOSE v \in SeqToSet(vol.roots) : \A u \in SeqToSet(vol.roots) : u = v

\* a score |delta| / (avg_volatility + e * eps) of lines 76 and 81, kept
\* unevaluated: vol_sq is the square of the volatility the code divides by,
\* e the number of eps added to it
Score(delta, vol_sq, e) == [delta |-> RatAbs(delta), vol_sq |-> vol_sq, e |-> e]

\* score < tn / td
ScoreLess(score, tn, td) ==
    LET x == RatMul(score.delta, Rat(td, tn))
        xx == RatMul(x, x)
    IN IF IsNaN(x) THEN FALSE
       ELSE IF score.vol_sq.n = 0 THEN x.n = 0 /\ score.e > 0
       ELSE RatLess(xx, score.vol_sq) \/ (xx = score.vol_sq /\ score.e > 0)

\* a variant of ScoreToLabel with the last breakpoint at 2.5
ScoreToLabel_LateStrong(score) ==
    IF ScoreLess(score, 1, 2) THEN "none"
    ELSE IF ScoreLess(score, 1, 1) THEN "minor"
    ELSE IF ScoreLess(score, 5, 2) THEN "moderate"
    ELSE "strong"

\* score_to_label of lines 87-100
ScoreToLabel(score) ==
    IF ScoreLess(score, 1, 2) THEN "none"
    ELSE IF ScoreLess(score, 1, 1) THEN "minor"
    ELSE IF ScoreLess(score, 2, 1) THEN "moderate"
    ELSE "strong"

\* np.mean(np.abs(full_series))
MeanAbs(series) == Rat(SumSeq([i \in 1 .. Len(series) |-> Abs(series[i])]), Len(series))


\* lines 107-110
HighVolatility(full_series, vol_sq) ==
    LET mean_abs_level == IF Len(full_series) > 0 THEN MeanAbs(full_series) ELSE RatInt(0)
        half == RatMul(Rat(1, 2), mean_abs_level)
    IN mean_abs_level.n > 0 /\ RatLess(RatMul(half, half), vol_sq)

\* a variant of RelChangePct without the test of line 36
RelChangePct_Unguarded(level_delta, previous_mean) ==
    RoundRat(RatMul(RatMul(level_delta, Rat(previous_mean.d, previous_mean.n)),
                    RatInt(100)), 2)

\* rel_change_pct of lines 35-37, rounded as line 136 returns it
RelChangePct(level_delta, previous_mean) ==
    IF previous_mean.n # 0 \/ IsNaN(previous_mean)
    THEN RoundRat(RatMul(RatMul(level_delta, Rat(previous_mean.d, previous_mean.n)),
                         RatInt(100)), 2)
    ELSE None

\* line 84
SlopeDirectionChange(current_slope, previous_slope) ==
    RatSign(current_slope) # RatSign(previous_slope)

\* a variant of AnyChangeDetected that looks at the two labels only
AnyChangeDetected_LabelsOnly(level_change_label, trend_change_label, slope_direction_change) ==
    \/ level_change_label \in {"minor", "moderate", "strong"}
    \/ trend_change_label \in {"minor", "moderate", "strong"}

\* lines 125-129
AnyChangeDetected(level_change_label, trend_change_label, slope_direction_change) ==
    \/ level_change_label \in {"minor", "moderate", "strong"}
    \/ trend_change_label \in {"minor", "moderate", "strong"}
    \/ slope_direction_change

\* a variant of Trustworthy that leaves out the volatility
Trustworthy_AnyVolatility(level_change_label, trend_change_label, trend_alignment, high_volatility) ==
    /\ (level_change_label # "none" \/ trend_change_label # "none")
    /\ RatLess(Rat(6, 10), trend_alignment)

\* lines 117-121
Trustworthy(level_change_label, trend_change_label, trend_alignment, high_volatility) ==
    /\ (level_change_label # "none" \/ trend_change_label # "none")
    /\ RatLess(Rat(6, 10), trend_alignment)
    /\ ~high_volatility

\* lines 131-158: the returned dictionary.  The statistics are in counts of
\* the metric's unit; the levels and slopes are rounded as the values they are
Assessment(current_mean, previous_mean, current_slope, previous_slope, level_delta, slope_delta, trend_alignment, vol_sq, level_change_label, trend_change_label, high_volatility, unit) ==
    [current_value        |-> RoundRat(RatMul(unit, current_mean), 4),
     previous_value       |-> RoundRat(RatMul(unit, previous_mean), 4),
     absolute_change      |-> RoundRat(RatMul(unit, level_delta), 4),
     relative_change_pct  |-> RelChangePct(level_delta, previous_mean),
     previous_trend_slope |-> RoundRat(RatMul(unit, previous_slope), 6),
     current_trend_slope  |-> RoundRat(RatMul(unit, current_slope), 6),
     slope_delta          |-> RoundRat(RatMul(unit, slope_delta), 6),
     level_score          |-> Score(level_delta, vol_sq, IF vol_sq.n > 0 THEN 0 ELSE 1),
     trend_score          |-> Score(slope_delta, vol_sq, IF vol_sq.n > 0 THEN 1 ELSE 2),
     level_change_label   |-> level_change_label,
     trend_change_label   |-> trend_change_label,
     slope_direction_changed |-> SlopeDirectionChange(current_slope, previous_slope),
     trend_consistency    |-> RoundRat(trend_alignment, 2),
     avg_volatility       |-> [sq |-> vol_sq],
     high_volatility      |-> high_volatility,
     any_change_detected  |->
         AnyChangeDetected(level_change_label, trend_change_label,
                           SlopeDirectionChange(current_slope, previous_slope)),
     trustworthy          |->
         Trustworthy(level_change_label, trend_change_label, trend_alignment,
                     high_volatility)]

\* the metric's unit: line 26 reads the column with astype(float).  A column
\* of decimal fractions (dtype float64) is held as whole counts of
\* 1 / FloatScale, a column of integers as counts of 1; the statistics are
\* taken over the counts, and the scores, being ratios, are the same in either
FloatScale == 25000

MetricUnit(t) ==
    IF t.dtypes[MetricCol] = "float64" THEN Rat(1, FloatScale) ELSE RatInt(1)

\* lines 53-158 from the statistics of lines 31-51 and the volatility.  The
\* two scores and avg_volatility involve a square root and are kept
\* unevaluated (Score, vol_sq) instead of rounded to 3 and 4 decimals
ContextOfStats(current_mean, previous_mean, current_slope, previous_slope, full_series, vol_sq, unit) ==
    LET level_delta == RatSub(current_mean, previous_mean)
        slope_delta == RatSub(current_slope, previous_slope)
    IN Assessment(current_mean, previous_mean, current_slope, previous_slope,
                  level_delta, slope_delta,
                  TrendAlignment(full_series, level_delta),
                  vol_sq,
                  ScoreToLabel(Score(level_delta, vol_sq, IF vol_sq.n > 0 THEN 0 ELSE 1)),
                  ScoreToLabel(Score(slope_delta, vol_sq, IF vol_sq.n > 0 THEN 1 ELSE 2)),
                  HighVolatility(full_series, vol_sq),
                  unit)

\* detect_change_context past its validation: lines 19-158
ChangeContext(full, cur, prev) ==
    ContextOfStats(
        Mean(Column(SortValues(cur, full.columns[1]), MetricCol)),
        Mean(Column(SortValues(prev, full.columns[1]), MetricCol)),
        FitSlope(Column(SortValues(cur, full.columns[1]), MetricCol)),
        FitSlope(Column(SortValues(prev, full.columns[1]), MetricCol)),
        Column(SortValues(full, full.columns[1]), MetricCol),
        VolatilitySq(Volatility(Column(SortValues(full, full.columns[1]), MetricCol))),
        MetricUnit(full))

\* a variant of PeriodWithoutData that tests the current period only
PeriodWithoutData_CurrentOnly(cur, prev) == IsEmpty(cur)

\* a variant of PeriodWithoutData that fails only when both periods are empty
PeriodWithoutData_BothEmpty(cur, prev) == IsEmpty(cur) /\ IsEmpty(prev)

\* the validation of lines 15-17
PeriodWithoutData(cur, prev) == IsEmpty(cur) \/ IsEmpty(prev)

\* detect_change_context(full_df, current, previous)
DetectChangeContext(full, cur, prev) ==
    IF PeriodWithoutData(cur, prev)
    THEN [raised |-> "ValueError",
          message |-> "One of the comparison periods has no data",
          value |-> None]
    ELSE [raised |-> NoRaise, message |-> "", value |-> ChangeContext(full, cur, prev)]

-----------------------------------------------------------------------------
(* data_quality.py: assess_data_quality *)

SeqMax(series) == CHOOSE x \in SeqToSet(series) : \A y \in SeqToSet(series) : y <= x

SeqMin(series) == CHOOSE x \in SeqToSet(series) : \A y \in SeqToSet(series) : x <= y

AssessDataQuality(full, cur, prev) ==
    LET warnings == IF IsEmpty(cur) \/ IsEmpty(prev)
                    THEN <<"One of the comparison periods has no data">>
                    ELSE <<>>
        dates == Column(full, "date")
        missing_days == NUnique(dates)
        expected_days == (SeqMax(dates) - SeqMin(dates)) + 1
    IN [completeness_score_avg |-> RoundRat(Rat(missing_days, expected_days), 2),
        warnings |-> warnings,
        anomalies_detected |-> Len(warnings) > 0]

-----------------------------------------------------------------------------
(* json_builder.py: build_output_json *)

\* a variant of DimensionSummary that counts the listed top drivers only
DimensionSummary_TopOnly(dim_info) ==
    [dimension    |-> dim_info.dimension,
     num_drivers  |-> Len(dim_info.top_positive) + Len(dim_info.top_negative),
     top_positive |-> dim_info.top_positive,
     top_negative |-> dim_info.top_negative]

\* the entry appended to dimension_summaries at lines 61-76
DimensionSummary(dim_info) ==
    [dimension    |-> dim_info.dimension,
     num_drivers  |-> IF "num_drivers" \in DOMAIN dim_info
                      THEN dim_info.num_drivers
                      ELSE Len(dim_info.drivers),
     top_positive |-> dim_info.top_positive,
     top_negative |-> dim_info.top_negative]

\* [{**d, "dimension": dim_name} for d in top] of lines 79-84
Tagged(top, dim_name) == [i \in 1 .. Len(top) |-> With(top[i], "dimension", dim_name)]

\* the pooled list of lines 79-84 over every dim_info, field being
\* "top_positive" or "top_negative"
Pooled(drivers, field) ==
    LET RECURSIVE Go(_)
        Go(i) == IF i > Len(drivers) THEN <<>>
                 ELSE Tagged(drivers[i][field], drivers[i].dimension) \o Go(i + 1)
    IN Go(1)

\* driver_sort_key of lines 90-93
DriverSortKey(d) ==
    IF "effect_score" \in DOMAIN d THEN d.effect_score
    ELSE IF "contrib_share_of_change" \in DOMAIN d THEN QuotAbs(d.contrib_share_of_change)
    ELSE Quot(RatInt(0), Eps(1, 0))

\* a variant of GlobalTop that truncates the pooled list without sorting it
GlobalTop_Unsorted(pooled) == Take(pooled, TopOverall)

\* sorted(pooled, key=driver_sort_key, reverse=True)[:5] of lines 95-96;
\* sorted is stable, also with reverse=True
GlobalTop(pooled) ==
    Take(SortStable(pooled, LAMBDA a, b : QuotLess(DriverSortKey(b), DriverSortKey(a))),
         TopOverall)

\* line 33
Direction(absolute_change) ==
    IF absolute_change.n > 0 THEN "up"
    ELSE IF absolute_change.n < 0 THEN "down" ELSE "flat"

\* a variant of JoinAnd that joins with a comma
JoinAnd_Comma(parts) ==
    LET RECURSIVE Go(_)
        Go(i) == IF i > Len(parts) THEN ""
                 ELSE IF i = 1 THEN parts[1] \o Go(2)
                 ELSE ", " \o parts[i] \o Go(i + 1)
    IN Go(1)

\* " and ".join(parts)
JoinAnd(parts) ==
    LET RECURSIVE Go(_)
        Go(i) == IF i > Len(parts) THEN ""
                 ELSE IF i = 1 THEN parts[1] \o Go(2)
                 ELSE " and " \o parts[i] \o Go(i + 1)
    IN Go(1)

\* change_summary of lines 99-110
ChangeSummary(cc, direction) ==
    IF ~cc.any_change_detected
    THEN "No meaningful change detected in this period."
    ELSE LET level == IF cc.level_change_label # "none"
                      THEN <<"a " \o cc.level_change_label \o " level change ("
                               \o direction \o ")">>
                      ELSE <<>>
             trend == IF cc.trend_change_label # "none"
                      THEN <<"a " \o cc.trend_change_label \o " trend change">>
                      ELSE <<>>
             parts == IF level \o trend = <<>>
                      THEN <<"a detectable but weak change">>
                      ELSE level \o trend
         IN JoinAnd(parts) \o " in the target metric."

\* a variant of ReliabilitySummary that goes by any_change_detected
ReliabilitySummary_AnyChange(cc) ==
    IF cc.any_change_detected /\ ~cc.high_volatility
    THEN "The detected change appears reliable given the historical pattern."
    ELSE "The detected change may be influenced by volatility or inconsistent trends."

\* reliability_summary of lines 112-116
ReliabilitySummary(cc) ==
    IF cc.trustworthy /\ ~cc.high_volatility
    THEN "The detected change appears reliable given the historical pattern."
    ELSE "The detected change may be influenced by volatility or inconsistent trends."

\* build_output_json(...): the document of lines 118-166, without its
\* constant meta and recommended_checks blocks
BuildOutputJson(cc, drivers, dq) ==
    LET direction == Direction(cc.absolute_change)
    IN [period_comparison |->
            [current_value       |-> cc.current_value,
             previous_value      |-> cc.previous_value,
             absolute_change     |-> cc.absolute_change,
             relative_change_pct |-> cc.relative_change_pct,
             direction           |-> direction,
             summary             |-> ChangeSummary(cc, direction)],
        change_strength |->
            [level_score             |-> cc.level_score,
             trend_score             |-> cc.trend_score,
             level_change_label      |-> cc.level_change_label,
             trend_change_label      |-> cc.trend_change_label,
             slope_direction_changed |-> cc.slope_direction_changed,
             trend_slopes |->
                 [previous_trend_slope |-> cc.previous_trend_slope,
                  current_trend_slope  |-> cc.current_trend_slope,
                  slope_delta          |-> cc.slope_delta]],
        change_trust |->
            [trend_consistency   |-> cc.trend_consistency,
             avg_volatility      |-> cc.avg_volatility,
             high_volatility     |-> cc.high_volatility,
             trustworthy         |-> cc.trustworthy,
             reliability_summary |-> ReliabilitySummary(cc)],
        drivers |->
            [by_dimension |-> [i \in 1 .. Len(drivers) |-> DimensionSummary(drivers[i])],
             top_positive_overall |-> GlobalTop(Pooled(drivers, "top_positive")),
             top_negative_overall |-> GlobalTop(Pooled(drivers, "top_negative"))],
        data_quality |-> dq]

-----------------------------------------------------------------------------
(* The inputs of a request *)

MetricValues == {0, 1, 199}

RowOf(date, m, d1, d2) ==
    [date |-> date, metric_value |-> m, dimension_1 |-> d1, dimension_2 |-> d2]

\* a row of segment s: dimension_1 names the segment, dimension_2 groups
\* the segments three ways
SegRow(date, m, s) == RowOf(date, m, CatNames[s], s % 3)

\* the small free tables: up to MaxRows rows over two segments, rows listed
\* by segment and value
SmallSegs == {1, 2}

Cells == MetricValues \X SmallSegs

CellCode(c) == c[2] * 1000 + c[1]

SmallBodies ==
    {b \in UNION {[1 .. k -> Cells] : k \in 0 .. MaxRows} :
        \A i \in 1 .. Len(b) - 1 : CellCode(b[i]) <= CellCode(b[i + 1])}

Period(body, first_date) ==
    [i \in 1 .. Len(body) |-> SegRow(first_date + i - 1, body[i][1], body[i][2])]

\* the wide tables: n rows over MaxCategories + 1 numeric values of
\* dimension_2, so that rows past that number repeat the first values
WideRows(n, m) ==
    [i \in 1 .. n |->
        RowOf(i, m, CatNames[(i % 2) + 1], 10 * (((i - 1) % (MaxCategories + 1)) + 1))]

\* the tables with a history: one older row of the full series before the
\* two periods, every row in the same segment
HistoryValues == {0, 95, 105}

LevelValues == {100, 110}

LevelBodies == UNION {[1 .. k -> LevelValues] : k \in 1 .. MaxRows}

\* metric values of the periods that follow two older rows of the series,
\* and the metric values of those two rows
SlopeValues == {100, 101, 103}

SlopeBodies == UNION {[1 .. k -> SlopeValues] : k \in 1 .. MaxRows}

OlderValues == <<101, 105>>

\* the counts of a metric of small decimal fractions, one row per period
FloatCounts == {1, 2, 3}

\* a table whose metric column holds decimal fractions
FloatTable(rows) == [Table(rows) EXCEPT !.dtypes.metric_value = "float64"]

LevelRows(body, first_date) ==
    [i \in 1 .. Len(body) |-> SegRow(first_date + i - 1, body[i], 1)]

InitTables ==
    \/ \E pb \in SmallBodies, cb \in SmallBodies :
          /\ previous = Table(Period(pb, 1))
          /\ current  = Table(Period(cb, Len(pb) + 1))
    \/ \E p \in MetricValues \X (1 .. NumSeg), f \in [1 .. NumSeg -> MetricValues \ {0}] :
          /\ previous = Table(<<SegRow(1, p[1], p[2])>>)
          /\ current  = Table([s \in 1 .. NumSeg |-> SegRow(s + 1, f[s], s)])
    \/ \E n \in MaxCategories .. MaxCategories + WideExtra, m \in MetricValues :
          /\ previous = Table(SubSeq(WideRows(n, m), 1, n \div 2))
          /\ current  = Table(SubSeq(WideRows(n, m), (n \div 2) + 1, n))
    \/ \E pb \in LevelBodies, cb \in LevelBodies :
          /\ previous = Table(LevelRows(pb, 2))
          /\ current  = Table(LevelRows(cb, Len(pb) + 2))
    \/ \E pb \in SlopeBodies, cb \in SlopeBodies :
          /\ previous = Table(LevelRows(pb, 3))
          /\ current  = Table(LevelRows(cb, Len(pb) + 3))
    \/ \E p \in FloatCounts, c \in FloatCounts :
          /\ previous = FloatTable(<<SegRow(1, p, 1)>>)
          /\ current  = FloatTable(<<SegRow(2, c, 1)>>)

\* the full series of a request: the two periods, or an older row and the
\* two periods when the periods lie in LevelValues, or two older rows and
\* the two periods when they lie in SlopeValues
InitFull ==
    \/ /\ \A i \in DOMAIN previous.rows : previous.rows[i].date = i
       /\ full_df = [previous EXCEPT !.rows = previous.rows \o current.rows]
    \/ /\ previous.rows # <<>> /\ previous.rows[1].date = 2
       /\ \E h \in HistoryValues :
             full_df = Table(<<SegRow(1, h, 1)>> \o previous.rows \o current.rows)
    \/ /\ previous.rows # <<>> /\ previous.rows[1].date = 3
       /\ full_df = Table(LevelRows(OlderValues, 1) \o previous.rows \o current.rows)

NoDimensionsArg == [given |-> FALSE, list |-> <<>>]

Init ==
    /\ InitTables
    /\ InitFull
    /\ dimensions_arg \in {NoDimensionsArg,
                           [given |-> TRUE, list |-> <<"dimension_1", "dimension_2">>]}
    /\ pc = "detect"
    /\ change_context = None
    /\ dimensions = <<>>
    /\ dim_i = 0
    /\ totals = None
    /\ frame = None
    /\ results = <<>>
    /\ data_quality = None
    /\ output_json = None
    /\ error = None
    /\ calls = <<>>

-----------------------------------------------------------------------------
(* analysis_o/main.py: the steps of analyze() *)

\* the except clauses of lines 58-73
HttpError(exception) ==
    [type |-> exception, status |-> IF exception = "ValueError" THEN 400 ELSE 500]

\* line 37
Detect ==
    /\ pc = "detect"
    /\ LET r == DetectChangeContext(full_df, current, previous)
       IN IF r.raised # NoRaise
          THEN /\ pc' = "failed"
               /\ error' = HttpError(r.raised)
               /\ UNCHANGED change_context
          ELSE /\ pc' = "drivers"
               /\ change_context' = r.value
               /\ UNCHANGED error
    /\ UNCHANGED <<calls, full_df, current, previous, dimensions_arg, dimensions, dim_i,
                   totals, frame, results, data_quality, output_json>>

\* line 38, entering calculate_drivers_effects: lines 103-122
DriversBegin ==
    /\ pc = "drivers"
    /\ IF dimensions_arg.given
       THEN dimensions' = dimensions_arg.list
       ELSE dimensions' \in IterationOrders(InferredDimensions(current, previous),
                                            dimensions)
    /\ results' = <<>>
    /\ totals' = Totals(current, previous)
    /\ dim_i' = 1
    /\ pc' = "drivers_loop"
    /\ UNCHANGED <<calls, full_df, current, previous, dimensions_arg, change_context,
                   frame, data_quality, output_json, error>>

\* one iteration of the loop of lines 124-261
DriversIteration ==
    /\ pc = "drivers_loop"
    /\ dim_i <= Len(dimensions)
    /\ LET r == DimensionStep(current, previous, dimensions[dim_i], totals)
       IN /\ current' = r.current
          /\ previous' = r.previous
          /\ frame' = r.frame
          /\ IF r.kind = "raise"
             THEN /\ pc' = "failed"
                  /\ error' = HttpError(r.raised)
                  /\ UNCHANGED <<results, dim_i>>
             ELSE /\ pc' = "drivers_loop"
                  /\ dim_i' = dim_i + 1
                  /\ results' = IF r.kind = "skip" THEN results
                                ELSE Append(results, r.result)
                  /\ UNCHANGED error
    /\ UNCHANGED <<calls, full_df, dimensions_arg, change_context, dimensions, totals,
                   data_quality, output_json>>

\* line 263: return results
DriversReturn ==
    /\ pc = "drivers_loop"
    /\ dim_i > Len(dimensions)
    /\ pc' = "quality"
    /\ UNCHANGED <<calls, full_df, current, previous, dimensions_arg, change_context,
                   dimensions, dim_i, totals, frame, results, data_quality,
                   output_json, error>>

\* line 39
Quality ==
    /\ pc = "quality"
    /\ data_quality' = AssessDataQuality(full_df, current, previous)
    /\ pc' = "build"
    /\ UNCHANGED <<calls, full_df, current, previous, dimensions_arg, change_context,
                   dimensions, dim_i, totals, frame, results, output_json, error>>

\* lines 41-49
Build ==
    /\ pc = "build"
    /\ output_json' = BuildOutputJson(change_context, results, data_quality)
    /\ pc' = "done"
    /\ UNCHANGED <<calls, full_df, current, previous, dimensions_arg, change_context,
                   dimensions, dim_i, totals, frame, results, data_quality, error>>

Next ==
    \/ Detect
    \/ DriversBegin
    \/ DriversIteration
    \/ DriversReturn
    \/ Quality
    \/ Build

Spec == Init /\ [][Next]_vars

-----------------------------------------------------------------------------
(* A caller that calls calculate_drivers_effects directly, several times in
   a row, with the same two table objects and the same arguments *)

\* the number of calls the caller makes
MaxCalls == 2

\* the caller's tables: those of InitTables whose previous period is empty,
\* a single row, or wide
InitCaller ==
    /\ InitTables
    /\ Len(previous.rows) <= 1 \/ Len(previous.rows) > MaxRows
    /\ full_df = Table(previous.rows \o current.rows)
    /\ dimensions_arg \in {NoDimensionsArg,
                           [given |-> TRUE, list |-> <<"dimension_1", "dimension_2">>]}
    /\ pc = "drivers"
    /\ change_context = None
    /\ dimensions = <<>>
    /\ dim_i = 0
    /\ totals = None
    /\ frame = None
    /\ results = <<>>
    /\ data_quality = None
    /\ output_json = None
    /\ error = None
    /\ calls = <<>>

\* where the caller goes once one more call has completed
AfterCall == IF Len(calls) + 1 < MaxCalls THEN "drivers" ELSE "called"

\* drivers.py line 263: the call returns its list to the caller
CallReturns ==
    /\ pc = "drivers_loop"
    /\ dim_i > Len(dimensions)
    /\ calls' = Append(calls, [raised |-> NoRaise, results |-> results])
    /\ pc' = AfterCall
    /\ UNCHANGED <<full_df, current, previous, dimensions_arg, change_context,
                   dimensions, dim_i, totals, frame, results, data_quality,
                   output_json, error>>

\* an exception of the loop reaches the caller, who notes it and goes on
CallRaises ==
    /\ pc = "failed"
    /\ calls' = Append(calls, [raised |-> error.type, results |-> <<>>])
    /\ error' = None
    /\ pc' = AfterCall
    /\ UNCHANGED <<full_df, current, previous, dimensions_arg, change_context,
                   dimensions, dim_i, totals, frame, results, data_quality,
                   output_json>>

NextCaller ==
    \/ DriversBegin
    \/ DriversIteration
    \/ CallReturns
    \/ CallRaises

SpecCaller == InitCaller /\ [][NextCaller]_vars

-----------------------------------------------------------------------------
(* A caller that calls bin_continuous_dimension directly on the two periods *)

InitBinning ==
    /\ InitCaller
    /\ ~dimensions_arg.given

\* bin_continuous_dimension(current, previous, dim) for a dimension column:
\* the two tables are assigned <dim>_binned and handed back
BinDimension ==
    /\ pc = "drivers"
    /\ Len(calls) < MaxCalls
    /\ \E dim \in {"dimension_1", "dimension_2"} :
          LET r == BinContinuousDimension(current, previous, dim)
          IN /\ current' = r.current
             /\ previous' = r.previous
             /\ calls' = Append(calls, [dim |-> dim])
    /\ UNCHANGED <<full_df, dimensions_arg, pc, change_context, dimensions, dim_i,
                   totals, frame, results, data_quality, output_json, error>>

NextBinning == BinDimension

SpecBinning == InitBinning /\ [][NextBinning]_vars

-----------------------------------------------------------------------------
(* A caller that labels scores with the two score_to_label functions: some
   change scores first (trend.py), then some effect scores (drivers.py) *)

\* change scores around the breakpoints 0.5, 1.0 and 2.0, in thousandths of
\* a volatility of 1, without and with the eps of trend.py line 81, and NaN
ChangeScores ==
    {Score(Rat(n, 1000), RatInt(1), e) : n \in {499, 500, 1000, 2000, 2001}, e \in {0, 1}}
        \cup {Score(NaN, RatInt(1), 0)}

\* effect scores around the breakpoints 0.02 and 0.1, in thousandths, and NaN
EffectScores ==
    {Quot(Rat(n, 1000), Eps(1, 0)) : n \in {19, 20, 99, 100}} \cup {Quot(NaN, Eps(1, 0))}

\* the entries of the caller's log made by one of the two functions
CallsOf(fn) == SelectSeq(calls, LAMBDA c : c.fn = fn)

InitLabels ==
    /\ full_df = Table(<<>>)
    /\ current = Table(<<>>)
    /\ previous = Table(<<>>)
    /\ dimensions_arg = NoDimensionsArg
    /\ pc = "labels"
    /\ change_context = None
    /\ dimensions = <<>>
    /\ dim_i = 0
    /\ totals = None
    /\ frame = None
    /\ results = <<>>
    /\ data_quality = None
    /\ output_json = None
    /\ error = None
    /\ calls = <<>>

\* trend.py score_to_label(score)
LabelChangeScore ==
    /\ pc = "labels"
    /\ Len(CallsOf("trend")) < MaxCalls
    /\ CallsOf("drivers") = <<>>
    /\ \E score \in ChangeScores :
          calls' = Append(calls, [fn |-> "trend", change_score |-> score,
                                  label |-> ScoreToLabel(score)])
    /\ UNCHANGED <<full_df, current, previous, dimensions_arg, pc, change_context,
                   dimensions, dim_i, totals, frame, results, data_quality,
                   output_json, error>>

\* drivers.py score_to_label(score)
LabelEffectScore ==
    /\ pc = "labels"
    /\ Len(CallsOf("drivers")) < MaxCalls
    /\ \E score \in EffectScores :
          calls' = Append(calls, [fn |-> "drivers", effect_score |-> score,
                                  label |-> DriverScoreToLabel(score)])
    /\ UNCHANGED <<full_df, current, previous, dimensions_arg, pc, change_context,
                   dimensions, dim_i, totals, frame, results, data_quality,
                   output_json, error>>

NextLabels ==
    \/ LabelChangeScore
    \/ LabelEffectScore

SpecLabels == InitLabels /\ [][NextLabels]_vars

-----------------------------------------------------------------------------
(* Properties of the specification, by claim *)

\* the loop of calculate_drivers_effects has run an iteration that reached
\* the merge and went on to the filters
Analysed == frame # None /\ frame.kind \in {"empty", "full"}

\* the values of the last processed dimension over current and previous
CombinedValues == Column(current, frame.dimension) \o Column(previous, frame.dimension)

\* C1: once detect_change_context has been called with an empty current or
\* an empty previous period, the request has failed with a ValueError (HTTP
\* 400) and no change context, partial or whole, has been returned.
C1_EmptyPeriodRaises ==
    (pc # "detect" /\ (IsEmpty(current) \/ IsEmpty(previous)))
        => /\ pc = "failed"
           /\ error = [type |-> "ValueError", status |-> 400]
           /\ change_context = None

\* C1 happens: the call failed although one period and the full series hold data
C1_Witness ==
    /\ pc = "failed"
    /\ IsEmpty(previous)
    /\ ~IsEmpty(current)
    /\ ~IsEmpty(full_df)
    /\ error.type = "ValueError"

\* C2: for every analysed dimension the contrib_delta of all merged
\* categories, before any filter, sum to total_curr_contrib -
\* total_prev_contrib.
C2_Conservation ==
    Analysed =>
        RatSumSeq(MapSeq(frame.merged, LAMBDA r : r.contrib_delta))
            = RatInt(totals.total_curr_contrib - totals.total_prev_contrib)

\* the volume share of the claim C3: the metric sum of the category over
\* the metric sum of the whole period, plus eps
MetricShareCurr(r) == Quot(RatInt(r.volume_curr), Eps(MetricSum(current, MetricCol), 1))

MetricSharePrev(r) == Quot(RatInt(r.volume_prev), Eps(MetricSum(previous, MetricCol), 1))

\* C3: a merged category survives the volume filter if and only if its metric
\* sum is at least min_volume_share (1%) of the period's total metric sum (plus
\* eps) in the current or in the previous period.
C3_VolumeFilter ==
    Analysed =>
        \A i \in DOMAIN frame.merged :
            LET r == frame.merged[i]
                survives == \E j \in DOMAIN frame.after_volume :
                                frame.after_volume[j][frame.dimension] = r[frame.dimension]
            IN survives <=> (\/ QuotGeqFrac(MetricShareCurr(r), 1)
                             \/ QuotGeqFrac(MetricSharePrev(r), 1))

\* C4: whenever shares are computed, their denominator is
\* total_contrib_delta if that is not 0 (the totals are whole numbers, so
\* |total_contrib_delta| > eps exactly then) and |total_curr_contrib| +
\* |total_prev_contrib| + eps otherwise; it is never zero and every share is
\* contrib_delta over it.
C4_Normalization ==
    (Analysed /\ frame.after_volume # <<>>) =>
        LET expected ==
                IF totals.total_contrib_delta # 0
                THEN [n |-> totals.total_contrib_delta, e |-> 0]
                ELSE [n |-> Abs(totals.total_curr_contrib) + Abs(totals.total_prev_contrib),
                      e |-> 1]
        IN /\ frame.denom = expected
           /\ frame.denom.n # 0 \/ frame.denom.e # 0
           /\ \A i \in DOMAIN frame.after_volume :
                 frame.after_volume[i].contrib_share_of_change
                     = [num |-> frame.after_volume[i].contrib_delta, den |-> expected]

\* C4 happens: the total delta is exactly 0 while categories moved in
\* opposite directions, and shares were computed
C4_Witness ==
    /\ Analysed
    /\ totals.total_contrib_delta = 0
    /\ \E i, j \in DOMAIN frame.after_volume :
          /\ RatSign(frame.after_volume[i].contrib_delta) > 0
          /\ RatSign(frame.after_volume[j].contrib_delta) < 0

\* C5: a processed dimension that is continuous (numeric, more than 20
\* distinct values over both periods) is binned and analysed without an
\* exception: a DriverResult of that dimension is appended and the merged
\* categories are bucket labels.
C5_ContinuousCompletes ==
    (/\ frame # None
     /\ IsNumericDtype(current.dtypes[frame.dimension])
     /\ NUnique(CombinedValues) > 20)
        => /\ frame.kind \in {"empty", "full"}
           /\ pc # "failed"
           /\ \E i \in DOMAIN results : results[i].dimension = frame.dimension
           /\ \A i \in DOMAIN frame.merged :
                 \E b \in 0 .. 9 :
                    frame.merged[i][frame.dimension] = BinLabel(frame.dimension, b)

\* C6: a dimension whose categories were all filtered out still has its
\* record in the results, and every record without drivers has empty top
\* lists and num_drivers = 0.
C6_EmptyResultRecord ==
    /\ (frame # None /\ frame.kind = "empty")
          => \E i \in DOMAIN results : /\ results[i].dimension = frame.dimension
                                       /\ results[i].drivers = <<>>
    /\ \A i \in DOMAIN results :
          results[i].drivers = <<>>
             => /\ results[i].top_positive = <<>>
                /\ results[i].top_negative = <<>>
                /\ "num_drivers" \in DOMAIN results[i]
                /\ results[i].num_drivers = 0

\* C7: by_dimension has exactly one entry per DriverResult, in the same
\* order, with its dimension name, its two top lists and the number of its
\* drivers (0 for a dimension without surviving category).
C7_ByDimension ==
    pc = "done" =>
        LET by_dimension == output_json.drivers.by_dimension
        IN /\ Len(by_dimension) = Len(results)
           /\ \A i \in DOMAIN results :
                 /\ DOMAIN by_dimension[i] =
                       {"dimension", "num_drivers", "top_positive", "top_negative"}
                 /\ by_dimension[i].dimension = results[i].dimension
                 /\ by_dimension[i].top_positive = results[i].top_positive
                 /\ by_dimension[i].top_negative = results[i].top_negative
                 /\ by_dimension[i].num_drivers = Len(results[i].drivers)

\* C7 happens: two dimensions were analysed and summarised, none with a
\* surviving category
C7_Witness ==
    /\ pc = "done"
    /\ Len(results) = 2
    /\ results[1].drivers = <<>>
    /\ Len(output_json.drivers.by_dimension) = 2
    /\ output_json.drivers.by_dimension[1].num_drivers = 0

\* C8: a dimension that went through the loop without an exception was
\* skipped if and only if its values over current and previous together have
\* at most one distinct value.
C8_SkipIffConstant ==
    (frame # None /\ frame.kind # "raise")
        => (frame.kind = "skip" <=> NUnique(CombinedValues) <= 1)

\* the positions of the records of drivers whose contrib_delta has sign sgn
SignedPositions(drivers, sgn) ==
    {j \in DOMAIN drivers : RatSign(drivers[j].contrib_delta) = sgn}

\* top is the first (at most 3) records of drivers at the positions pos
FirstThreeOf(top, drivers, pos) ==
    /\ Len(top) = IF Cardinality(pos) < 3 THEN Cardinality(pos) ELSE 3
    /\ \A k \in DOMAIN top :
          \E j \in pos : /\ Cardinality({l \in pos : l < j}) = k - 1
                         /\ top[k] = drivers[j]

\* C9: in every DriverResult with surviving categories the drivers are in
\* non-increasing order of effect_score, top_positive (top_negative) is the
\* first at most 3 of them with contrib_delta > 0 (< 0), the two lists share
\* no record and num_drivers is the length of drivers.
C9_RankedDrivers ==
    \A i \in DOMAIN results :
        results[i].drivers # <<>> =>
            LET d == results[i].drivers
            IN /\ \A j, k \in DOMAIN d :
                     j < k => ~QuotLess(d[j].effect_score, d[k].effect_score)
               /\ FirstThreeOf(results[i].top_positive, d, SignedPositions(d, 1))
               /\ FirstThreeOf(results[i].top_negative, d, SignedPositions(d, -1))
               /\ \A a \in DOMAIN results[i].top_positive,
                     b \in DOMAIN results[i].top_negative :
                     results[i].top_positive[a] # results[i].top_negative[b]
               /\ results[i].num_drivers = Len(d)

\* C9 happens: a dimension has more than 3 positive drivers, with different
\* scores, and 3 of them are listed
C9_Witness ==
    \E i \in DOMAIN results :
        /\ Cardinality(SignedPositions(results[i].drivers, 1)) > 3
        /\ Len(results[i].top_positive) = 3
        /\ QuotLess(results[i].drivers[Len(results[i].drivers)].effect_score,
                    results[i].drivers[1].effect_score)

\* the places <<i, k>> of the records of every dimension's top list `field`
PooledPlaces(field) ==
    {p \in (DOMAIN results) \X (1 .. 3) : p[2] <= Len(results[p[1]][field])}

\* out[o] is the record at place p, tagged with its dimension
IsRecordAt(entry, field, p) ==
    /\ entry.dimension = results[p[1]].dimension
    /\ entry = With(results[p[1]][field][p[2]], "dimension", results[p[1]].dimension)

\* out is the global top list of the per-dimension lists `field`
IsGlobalTop(out, field) ==
    LET places == PooledPlaces(field)
    IN /\ Len(out) = IF Cardinality(places) < 5 THEN Cardinality(places) ELSE 5
       /\ \A o \in DOMAIN out : \E p \in places : IsRecordAt(out[o], field, p)
       /\ \A o1, o2 \in DOMAIN out : o1 # o2 => out[o1] # out[o2]
       /\ \A o1, o2 \in DOMAIN out :
             o1 < o2 => ~QuotLess(out[o1].effect_score, out[o2].effect_score)
       /\ \A p \in places :
             (\A o \in DOMAIN out : ~IsRecordAt(out[o], field, p))
                => \A o \in DOMAIN out :
                      ~QuotLess(out[o].effect_score,
                                results[p[1]][field][p[2]].effect_score)

\* C10: top_positive_overall (top_negative_overall) holds at most 5 records,
\* each a record of some dimension's top_positive (top_negative) list tagged
\* with that dimension, in non-increasing order of effect_score, and no
\* pooled record left out has a higher score than one kept.
C10_GlobalTop ==
    pc = "done" =>
        /\ IsGlobalTop(output_json.drivers.top_positive_overall, "top_positive")
        /\ IsGlobalTop(output_json.drivers.top_negative_overall, "top_negative")

\* C10 happens: more than 5 positive records are pooled from two dimensions,
\* with different scores, and 5 are kept
C10_Witness ==
    /\ pc = "done"
    /\ Cardinality(PooledPlaces("top_positive")) > 5
    /\ Len(output_json.drivers.top_positive_overall) = 5
    /\ QuotLess(output_json.drivers.top_positive_overall[5].effect_score,
                output_json.drivers.top_positive_overall[1].effect_score)

\* the place of a column in the input tables
ColumnPlace(c) == CHOOSE i \in DOMAIN Columns : Columns[i] = c

\* the place of a dimension in the explicit `dimensions` argument
ArgumentPlace(c) == CHOOSE i \in DOMAIN dimensions_arg.list : dimensions_arg.list[i] = c

\* C11: the DriverResults are in the order of the input dimensions: the order
\* of the `dimensions` argument when it is given, the order of the columns of
\* the tables when the dimensions are inferred.
C11_DimensionOrder ==
    \A i, j \in DOMAIN results :
        i < j =>
            IF dimensions_arg.given
            THEN ArgumentPlace(results[i].dimension) < ArgumentPlace(results[j].dimension)
            ELSE ColumnPlace(results[i].dimension) < ColumnPlace(results[j].dimension)

\* the rows of the two periods are rows of the full series, untouched
PeriodsAsGiven ==
    \E k \in 0 .. Len(full_df.rows) :
        SubSeq(full_df.rows, k + 1, Len(full_df.rows)) = previous.rows \o current.rows

\* C13: calculate_drivers_effects leaves the caller's current and previous
\* tables with the columns and the values they had before the call; no
\* <dim>_binned column is added.
C13_InputsUntouched ==
    /\ current.columns = Columns
    /\ previous.columns = Columns
    /\ PeriodsAsGiven

\* the mean of the metric over a period, from its rows
PeriodMean(t) ==
    LET RECURSIVE Total(_)
        Total(i) == IF i = 0 THEN 0 ELSE Total(i - 1) + t.rows[i].metric_value
    IN [n |-> Total(Len(t.rows)), d |-> Len(t.rows)]

\* x is the rational a / b
IsRatio(x, a, b) == x.d # 0 /\ b # 0 /\ x.n * b = a * x.d

\* x is the rational q rounded to k decimals: a multiple of 10^-k at most
\* half of 10^-k away from q
IsRounded(x, q, k) ==
    /\ Pow10(k) % x.d = 0
    /\ 2 * Pow10(k) * Abs(x.n * q.d - q.n * x.d) <= x.d * q.d

\* C14: relative_change_pct is null exactly when the previous mean is 0 and
\* otherwise is level_delta / previous_mean * 100 rounded to 2 decimals; the
\* rest of the ChangeContext is there all the same (its mean fields say so)
\* and build_output_json carries the value, null included, to
\* period_comparison.relative_change_pct.
C14_RelativeChange ==
    change_context # None =>
        LET pm == PeriodMean(previous)
            cm == PeriodMean(current)
            pct == change_context.relative_change_pct
        IN /\ (pct = None) <=> (pm.n = 0)
           /\ pm.n # 0 =>
                 IsRounded(pct, [n |-> 100 * (cm.n * pm.d - pm.n * cm.d), d |-> pm.n * cm.d], 2)
           /\ IsRounded(change_context.previous_value,
                        [n |-> pm.n * MetricUnit(previous).n, d |-> pm.d * MetricUnit(previous).d],
                        4)
           /\ DOMAIN change_context =
                 {"current_value", "previous_value", "absolute_change",
                  "relative_change_pct", "previous_trend_slope", "current_trend_slope",
                  "slope_delta", "level_score", "trend_score", "level_change_label",
                  "trend_change_label", "slope_direction_changed", "trend_consistency",
                  "avg_volatility", "high_volatility", "any_change_detected",
                  "trustworthy"}
           /\ pc = "done" =>
                 output_json.period_comparison.relative_change_pct = pct

\* C14 happens: the previous mean is 0, the current mean is not, and the
\* document was built with a null relative change
C14_Witness ==
    /\ pc = "done"
    /\ PeriodMean(previous).n = 0
    /\ PeriodMean(current).n # 0
    /\ output_json.period_comparison.relative_change_pct = None
    /\ output_json.period_comparison.direction = "up"

\* the least-squares slope of the metric over a period
PeriodSlope(t) == FitSlope(Column(SortValues(t, "date"), MetricCol))

\* |delta| / (volatility + extra) < tn / td, where volatility is the square
\* root of vol_sq, or eps when that is 0, and extra is eps or nothing
ScoreUnder(delta, vol_sq, plus_eps, tn, td) ==
    IF vol_sq.n = 0 THEN delta.n = 0
    ELSE LET lhs == delta.n * delta.n * td * td * vol_sq.d
             rhs == tn * tn * vol_sq.n * delta.d * delta.d
         IN lhs < rhs \/ (plus_eps /\ lhs = rhs)

\* the label of the breakpoints 0.5, 1.0 and 2.0, each the lowest score of
\* its label
BreakpointLabel(delta, vol_sq, plus_eps) ==
    CASE ScoreUnder(delta, vol_sq, plus_eps, 1, 2) -> "none"
      [] ~ScoreUnder(delta, vol_sq, plus_eps, 1, 2)
           /\ ScoreUnder(delta, vol_sq, plus_eps, 1, 1) -> "minor"
      [] ~ScoreUnder(delta, vol_sq, plus_eps, 1, 1)
           /\ ScoreUnder(delta, vol_sq, plus_eps, 2, 1) -> "moderate"
      [] ~ScoreUnder(delta, vol_sq, plus_eps, 2, 1) -> "strong"

SignAgreement ==
    LET rows == full_df.rows
        pm == PeriodMean(previous)
        cm == PeriodMean(current)
        sgn == Sign(cm.n * pm.d - pm.n * cm.d)
        agree == {i \in 1 .. Len(rows) - 1 :
                     Sign(rows[i + 1].metric_value - rows[i].metric_value) = sgn}
    IN IF sgn = 0 THEN [n |-> 1, d |-> 2]
       ELSE [n |-> Cardinality(agree), d |-> Len(rows) - 1]

\* C17: trustworthy is true exactly when a label is not "none", the trend
\* consistency (the fraction before it is rounded for the report) is above
\* 0.6 and high_volatility is false.
C17_Trustworthy ==
    change_context # None =>
        (change_context.trustworthy
            <=> /\ \/ change_context.level_change_label # "none"
                   \/ change_context.trend_change_label # "none"
                /\ 10 * SignAgreement.n > 6 * SignAgreement.d
                /\ ~change_context.high_volatility)

\* C17 happens: a change that is trustworthy
C17_Witness ==
    /\ change_context # None
    /\ change_context.trustworthy
    /\ change_context.level_change_label # "none"
    /\ ~change_context.high_volatility

\* C18: any_change_detected is true exactly when a label is not "none" or
\* slope_direction_changed, and slope_direction_changed exactly when the
\* slopes of the two periods differ in sign.
C18_AnyChange ==
    change_context # None =>
        /\ change_context.any_change_detected
              <=> \/ change_context.level_change_label # "none"
                  \/ change_context.trend_change_label # "none"
                  \/ change_context.slope_direction_changed
        /\ change_context.slope_direction_changed
              <=> Sign(PeriodSlope(current).n) # Sign(PeriodSlope(previous).n)

\* C18 happens: both labels are "none" and the slope turned from rising to
\* falling, which alone makes the change detected
C18_Witness ==
    /\ change_context # None
    /\ change_context.level_change_label = "none"
    /\ change_context.trend_change_label = "none"
    /\ PeriodSlope(previous).n > 0
    /\ PeriodSlope(current).n < 0
    /\ change_context.any_change_detected

\* C19: the summary is the fixed message when no change is detected;
\* otherwise the level clause (when its label is not "none") and the trend
\* clause (when its label is not "none"), with " and " between the two, or
\* the weak-change clause when both labels are "none".
C19_ChangeSummary ==
    pc = "done" =>
        LET cc == change_context
            pcmp == output_json.period_comparison
            level == "a " \o cc.level_change_label \o " level change ("
                        \o pcmp.direction \o ")"
            trend == "a " \o cc.trend_change_label \o " trend change"
            tail == " in the target metric."
        IN pcmp.summary =
              CASE ~cc.any_change_detected ->
                      "No meaningful change detected in this period."
                [] cc.any_change_detected /\ cc.level_change_label # "none"
                      /\ cc.trend_change_label # "none" ->
                      level \o " and " \o trend \o tail
                [] cc.any_change_detected /\ cc.level_change_label # "none"
                      /\ cc.trend_change_label = "none" -> level \o tail
                [] cc.any_change_detected /\ cc.level_change_label = "none"
                      /\ cc.trend_change_label # "none" -> trend \o tail
                [] cc.any_change_detected /\ cc.level_change_label = "none"
                      /\ cc.trend_change_label = "none" ->
                      "a detectable but weak change" \o tail

\* C19 happens: a summary with both clauses
C19_Witness ==
    /\ pc = "done"
    /\ change_context.level_change_label = "moderate"
    /\ change_context.trend_change_label = "strong"
    /\ output_json.period_comparison.summary =
          "a moderate level change (up) and a strong trend change in the target metric."

\* C12: two calls of calculate_drivers_effects in a row, with the same tables
\* and the same arguments, end the same way: with the same list of
\* DriverResults, dimensions and records in the same order, or with the same
\* exception.
C12_Idempotence ==
    \A i, j \in DOMAIN calls : calls[i] = calls[j]

\* two calls with inferred dimensions have returned a list of two
\* DriverResults, one of them with several drivers
C12_Witness ==
    /\ Len(calls) = MaxCalls
    /\ ~dimensions_arg.given
    /\ \A i \in DOMAIN calls :
          /\ calls[i].raised = NoRaise
          /\ Len(calls[i].results) = 2
          /\ \E k \in 1 .. 2 : Len(calls[i].results[k].drivers) >= 2

\* the two periods' pairs of a raw value and its <dim>_binned value
BinnedPairs(dim) ==
    {<<current.rows[i][dim], current.rows[i][BinnedName(dim)]>> : i \in DOMAIN current.rows}
        \cup {<<previous.rows[i][dim], previous.rows[i][BinnedName(dim)]>> :
                  i \in DOMAIN previous.rows}

\* C20: after bin_continuous_dimension, either both periods carry bucket
\* labels taken from one set of edges (a raw value has one label, whichever
\* period it occurs in, and a larger raw value never has an earlier bucket
\* than a smaller one of the other period), or both periods carry their raw
\* values; with fewer than min_unique distinct values they carry raw values.
C20_BinningConsistency ==
    \A k \in DOMAIN calls :
        LET dim == calls[k].dim
            binned == BinnedName(dim)
            combined == Column(current, dim) \o Column(previous, dim)
        IN /\ HasColumn(current, binned) /\ HasColumn(previous, binned)
           /\ current.dtypes[binned] = previous.dtypes[binned]
           /\ IF current.dtypes[binned] = "category"
              THEN \A p, q \in BinnedPairs(dim) :
                      /\ p[1] = q[1] => p[2] = q[2]
                      /\ p[1] < q[1] => BinIndex(p[2]) <= BinIndex(q[2])
              ELSE \A p \in BinnedPairs(dim) : p[2] = p[1]
           /\ NUnique(combined) < MinUnique => current.dtypes[binned] # "category"

\* a dimension has been binned and one of its raw values occurs in both
\* periods; another call left a dimension of few values raw
C20_Witness ==
    /\ \E k \in DOMAIN calls :
          /\ current.dtypes[BinnedName(calls[k].dim)] = "category"
          /\ \E i \in DOMAIN current.rows, j \in DOMAIN previous.rows :
                current.rows[i][calls[k].dim] = previous.rows[j][calls[k].dim]
    /\ \E k \in DOMAIN calls :
          /\ current.dtypes[BinnedName(calls[k].dim)] # "category"
          /\ current.rows # <<>>

\* none < minor < moderate < strong
LabelRank(label) ==
    CHOOSE i \in 1 .. 4 : <<"none", "minor", "moderate", "strong">>[i] = label

\* a < b for two change scores over the same volatility; the eps added to
\* the divisor makes a positive score smaller
ChangeScoreBefore(a, b) ==
    /\ ~IsNaN(a.delta) /\ ~IsNaN(b.delta)
    /\ \/ RatLess(a.delta, b.delta)
       \/ a.delta = b.delta /\ a.delta.n > 0 /\ b.e < a.e

\* C16: with either labelling function, a smaller score never has a
\* stronger label than a larger one (none < minor < moderate < strong).
C16_LabelMonotonicity ==
    /\ \A i, j \in DOMAIN CallsOf("trend") :
          ChangeScoreBefore(CallsOf("trend")[i].change_score,
                            CallsOf("trend")[j].change_score)
              => LabelRank(CallsOf("trend")[i].label) <= LabelRank(CallsOf("trend")[j].label)
    /\ \A i, j \in DOMAIN CallsOf("drivers") :
          QuotLess(CallsOf("drivers")[i].effect_score, CallsOf("drivers")[j].effect_score)
              => LabelRank(CallsOf("drivers")[i].label)
                    <= LabelRank(CallsOf("drivers")[j].label)

\* each function has labelled two scores, the smaller one weaker than the
\* larger one
C16_Witness ==
    /\ \E i, j \in DOMAIN CallsOf("trend") :
          /\ ChangeScoreBefore(CallsOf("trend")[i].change_score,
                               CallsOf("trend")[j].change_score)
          /\ CallsOf("trend")[i].label = "none"
          /\ CallsOf("trend")[j].label = "strong"
    /\ \E i, j \in DOMAIN CallsOf("drivers") :
          /\ QuotLess(CallsOf("drivers")[i].effect_score,
                      CallsOf("drivers")[j].effect_score)
          /\ CallsOf("drivers")[i].label = "minor"
          /\ CallsOf("drivers")[j].label = "strong"

\* the level delta and the slope delta of the two periods, before rounding
LevelDelta == RatSub(PeriodMean(current), PeriodMean(previous))

SlopeDelta == RatSub(PeriodSlope(current), PeriodSlope(previous))

\* C21: trend_score divides |slope_delta| by the volatility that level_score
\* divides |level_delta| by, so whenever |slope_delta| = |level_delta| the
\* trend label is the level label, at the breakpoints too.
C21_SameVolatility ==
    (change_context # None /\ RatAbs(SlopeDelta) = RatAbs(LevelDelta))
        => change_context.trend_change_label = change_context.level_change_label

\* C22: trend_consistency is 0.5 when the level delta is exactly zero and
\* otherwise the fraction (reported to 2 decimals) of the successive
\* differences of the time-ordered full series whose sign is the sign of the
\* level delta, a zero difference never matching; it lies in [0, 1]; and a
\* change whose fraction is 0.6 or less is not trustworthy.
C22_TrendConsistency ==
    change_context # None =>
        LET tc == change_context.trend_consistency
        IN /\ LevelDelta.n = 0 => tc = [n |-> 1, d |-> 2]
           /\ IsRounded(tc, SignAgreement, 2)
           /\ tc.d > 0 /\ 0 <= tc.n /\ tc.n <= tc.d
           /\ 10 * SignAgreement.n <= 6 * SignAgreement.d => ~change_context.trustworthy

\* C22 happens: three of the five differences of the series follow the level
\* delta and one difference is zero; the change has a label, the volatility
\* is not high, and the change is not trustworthy
C22_Witness ==
    /\ change_context # None
    /\ LevelDelta.n # 0
    /\ 5 * SignAgreement.n = 3 * SignAgreement.d
    /\ \E i \in 1 .. Len(full_df.rows) - 1 :
          full_df.rows[i + 1].metric_value = full_df.rows[i].metric_value
    /\ change_context.level_change_label # "none"
    /\ ~change_context.high_volatility
    /\ ~change_context.trustworthy

\* C23: a trustworthy ChangeContext has any_change_detected true and
\* high_volatility false, and the document's reliability_summary is the
\* "appears reliable" sentence exactly when trustworthy is true, the other
\* fixed sentence otherwise.
C23_Reliability ==
    /\ change_context # None =>
          (change_context.trustworthy
              => change_context.any_change_detected /\ ~change_context.high_volatility)
    /\ pc = "done" =>
          output_json.change_trust.reliability_summary =
              IF change_context.trustworthy
              THEN "The detected change appears reliable given the historical pattern."
              ELSE "The detected change may be influenced by volatility or inconsistent trends."

\* C23 happens: a document was built for a trustworthy change
C23_Witness ==
    /\ pc = "done"
    /\ change_context.trustworthy
    /\ output_json.change_trust.trustworthy
    /\ output_json.change_trust.reliability_summary =
          "The detected change appears reliable given the historical pattern."

\* C24: in every document built, a level label other than "none" comes with
\* the direction "up" or "down", never "flat".
C24_DirectionAgreesWithLabel ==
    (pc = "done" /\ output_json.change_strength.level_change_label # "none")
        => output_json.period_comparison.direction \in {"up", "down"}

\* C25: a request with an empty current or previous period never gets as far
\* as assess_data_quality, so every data_quality computed, and every document
\* built, has no warnings and anomalies_detected false.
C25_NoEmptyPeriodWarning ==
    /\ (IsEmpty(current) \/ IsEmpty(previous))
          => /\ pc \in {"detect", "failed"}
             /\ data_quality = None
             /\ output_json = None
    /\ data_quality # None
          => data_quality.warnings = <<>> /\ ~data_quality.anomalies_detected
    /\ pc = "done"
          => /\ output_json.data_quality.warnings = <<>>
             /\ ~output_json.data_quality.anomalies_detected

\* C25 happens: a request with an empty previous period has been aborted
\* with no data_quality computed
C25_Witness ==
    /\ pc = "failed"
    /\ IsEmpty(previous)
    /\ ~IsEmpty(current)
    /\ error.status = 400
    /\ data_quality = None
    /\ output_json = None

====
